---- MODULE Spec2Model ----
(***************************************************************************)
(* A model of unicornhathd.py: the pixel buffer, the chain of eight        *)
(* displays, the global render state and the output of show() on the SPI   *)
(* bus.  Arrays are numpy arrays of shape (n0, n1, 3): a record with the   *)
(* two leading dimensions and the cells at[i][j] (0-based), each cell a    *)
(* triple <<r, g, b>>.  Python semantics are kept where they decide a      *)
(* result: negative indices and slice bounds, round-half-even of round()   *)
(* (Python 3), the modulus of numpy.rot90, the casts of astype(uint8).     *)
(***************************************************************************)
EXTENDS Integers, Sequences, FiniteSets, TLC

VARIABLES
    buf,             \* _buf, the numpy pixel array
    buffer_width,    \* _buffer_width
    buffer_height,   \* _buffer_height
    displays,        \* _displays, 0..7 -> Display
    rotation,        \* _rotation
    brightness,      \* _brightness: [kind, num, den], a float num/den or an int num
    addressing,      \* _addressing_enabled
    is_setup,        \* is_setup
    opens,           \* number of successful _spi.open() calls so far
    uint8_cast,      \* what the build's float -> uint8 cast does out of range
    call,            \* the most recent call: [op, args]
    err,             \* the exception the most recent call raised, or "none"
    log              \* the bus activity of the most recent call, in order

vars == <<buf, buffer_width, buffer_height, displays, rotation, brightness,
          addressing, is_setup, opens, uint8_cast, call, err, log>>

----------------------------------------------------------------------------
(* Program constants *)

\* _SOF
SOF == 114

\* The edge of a panel in pixels.  The source fixes it at 16 (WIDTH, HEIGHT and
\* PANEL_SHAPE, and 768 = 16 * 16 * 3 in show()); nothing else in the code
\* depends on the value, and the model is checked at this smaller scale.
PanelEdge == 2

WIDTH == PanelEdge

HEIGHT == PanelEdge

PANEL_W == PanelEdge

PANEL_H == PanelEdge

\* the length of _displays
NumDisplays == 8

\* the 768 of reshape(768): the values of one panel
FrameLen == PANEL_W * PANEL_H * 3

COLORS ==
    [name \in {"red", "lime", "blue", "yellow", "magenta", "cyan", "black",
               "white", "gray", "grey", "silver", "maroon", "olive", "green",
               "teal", "navy", "orange", "gold", "purple", "indigo"} |->
        CASE name = "red"     -> <<255, 0, 0>>
          [] name = "lime"    -> <<0, 255, 0>>
          [] name = "blue"    -> <<0, 0, 255>>
          [] name = "yellow"  -> <<255, 255, 0>>
          [] name = "magenta" -> <<255, 0, 255>>
          [] name = "cyan"    -> <<0, 255, 255>>
          [] name = "black"   -> <<0, 0, 0>>
          [] name = "white"   -> <<255, 255, 255>>
          [] name = "gray"    -> <<127, 127, 127>>
          [] name = "grey"    -> <<127, 127, 127>>
          [] name = "silver"  -> <<192, 192, 192>>
          [] name = "maroon"  -> <<128, 0, 0>>
          [] name = "olive"   -> <<128, 128, 0>>
          [] name = "green"   -> <<0, 128, 0>>
          [] name = "teal"    -> <<0, 128, 128>>
          [] name = "navy"    -> <<0, 0, 128>>
          [] name = "orange"  -> <<255, 165, 0>>
          [] name = "gold"    -> <<255, 215, 0>>
          [] name = "purple"  -> <<128, 0, 128>>
          [] OTHER            -> <<75, 0, 130>>]

----------------------------------------------------------------------------
(* numpy arrays *)

Max(a, b) == IF a >= b THEN a ELSE b

Min(a, b) == IF a <= b THEN a ELSE b

\* numpy.zeros((w, h, 3), dtype=int), for w, h >= 0
Zeros(w, h) ==
    [n0 |-> w, n1 |-> h,
     at |-> [i \in 0..(w - 1) |-> [j \in 0..(h - 1) |-> <<0, 0, 0>>]]]

\* _buf[:] = r, g, b
Filled(m, rgb) ==
    [m EXCEPT !.at = [i \in 0..(m.n0 - 1) |-> [j \in 0..(m.n1 - 1) |-> rgb]]]

\* numpy.flip(m, 0)
Flip0(m) ==
    [m EXCEPT !.at = [i \in 0..(m.n0 - 1) |-> m.at[m.n0 - 1 - i]]]

\* numpy.flip(m, 1)
Flip1(m) ==
    [m EXCEPT !.at = [i \in 0..(m.n0 - 1) |->
                        [j \in 0..(m.n1 - 1) |-> m.at[i][m.n1 - 1 - j]]]]

\* numpy.transpose(m, (1, 0, 2))
Transpose(m) ==
    [n0 |-> m.n1, n1 |-> m.n0,
     at |-> [i \in 0..(m.n1 - 1) |-> [j \in 0..(m.n0 - 1) |-> m.at[j][i]]]]

\* numpy.rot90(m, k) over the axes (0, 1): k is reduced modulo 4 first
rot90(m, k) ==
    LET kk == k % 4
    IN  CASE kk = 0 -> m
          [] kk = 2 -> Flip1(Flip0(m))
          [] kk = 1 -> Transpose(Flip1(m))
          [] OTHER  -> Flip1(Transpose(m))

\* the bound of a Python slice over a dimension of length n
SliceBound(v, n) == IF v < 0 THEN Max(v + n, 0) ELSE Min(v, n)

\* source[x:x + w, y:y + h]
Slice2(source, x, y, w, h) ==
    LET lo0 == SliceBound(x, source.n0)
        hi0 == SliceBound(x + w, source.n0)
        lo1 == SliceBound(y, source.n1)
        hi1 == SliceBound(y + h, source.n1)
        c0  == Max(hi0 - lo0, 0)
        c1  == Max(hi1 - lo1, 0)
    IN  [n0 |-> c0, n1 |-> c1,
         at |-> [i \in 0..(c0 - 1) |->
                   [j \in 0..(c1 - 1) |-> source.at[lo0 + i][lo1 + j]]]]

\* the number of values of the array
Size(m) == m.n0 * m.n1 * 3

\* m.reshape(n), defined when Size(m) = n: row-major, channels innermost
Reshape(m, n) ==
    [k \in 1..n |->
        m.at[(k - 1) \div (m.n1 * 3)][((k - 1) \div 3) % m.n1][((k - 1) % 3) + 1]]

\* whether a[i] is a valid index into a dimension of length n
IndexOk(i, n) == (-n <= i) /\ (i < n)

\* the position a valid Python index i names
PyIndex(i, n) == IF i < 0 THEN i + n ELSE i

----------------------------------------------------------------------------
(* Display *)

Display(enabled, x, y, r) == [rotation |-> r, x |-> x, y |-> y, enabled |-> enabled]

\* a slip: the panel's own rotation without the fixed quarter-turn
get_buffer_window_no_turn(d, source) ==
    rot90(Slice2(source, d.x, d.y, PANEL_W, PANEL_H), d.rotation)

get_buffer_window(d, source) ==
    rot90(Slice2(source, d.x, d.y, PANEL_W, PANEL_H), d.rotation + 1)

----------------------------------------------------------------------------
(* Brightness scaling and the conversion to bytes *)

FloatB(n, d) == [kind |-> "float", num |-> n, den |-> d]

IntB(n) == [kind |-> "int", num |-> n, den |-> 1]

\* the integer part of p / d (d > 0), towards zero
Trunc(p, d) == IF p >= 0 THEN p \div d ELSE -((-p) \div d)

\* (v * _brightness).astype(numpy.uint8) of one channel value v.  An integer
\* product wraps modulo 256.  A float product is truncated towards zero; out
\* of the range of a byte the C cast is undefined, and the build either
\* wraps or saturates.
ToByte(v, b, cast) ==
    IF b.kind = "int"
    THEN (v * b.num) % 256
    ELSE LET t == Trunc(v * b.num, b.den)
         IN  IF 0 <= t /\ t <= 255 THEN t
             ELSE IF cast = "wrap" THEN t % 256
             ELSE IF t < 0 THEN 0 ELSE 255

\* (window.reshape(768) * _brightness).astype(numpy.uint8).tolist()
Payload(m) ==
    LET flat == Reshape(m, FrameLen)
    IN  [k \in 1..FrameLen |-> ToByte(flat[k], brightness, uint8_cast)]

----------------------------------------------------------------------------
(* Bus events *)

Xfer(data) == [data |-> data, ev |-> "xfer"]

Sleep == [data |-> <<>>, ev |-> "sleep"]

Open == [data |-> <<>>, ev |-> "open"]

Call(op, args) == [op |-> op, args |-> args]

----------------------------------------------------------------------------
(* Initial state: the module-level assignments *)

Init ==
    /\ buf = Zeros(WIDTH, HEIGHT)
    /\ buffer_width = WIDTH
    /\ buffer_height = HEIGHT
    /\ displays = [a \in 0..(NumDisplays - 1) |-> Display(FALSE, 0, 0, 0)]
    /\ rotation = 0
    /\ brightness = FloatB(1, 2)
    /\ addressing = FALSE
    /\ is_setup = FALSE
    /\ opens = 0
    /\ uint8_cast \in {"wrap", "saturate"}
    /\ call = Call("import", <<>>)
    /\ err = "none"
    /\ log = <<>>

----------------------------------------------------------------------------
(* Colour arguments: three numbers, a tuple, or a name *)

Rgb(r, g, b) == [name |-> "", v |-> <<r, g, b>>, kind |-> "rgb"]

Tuple(r, g, b) == [name |-> "", v |-> <<r, g, b>>, kind |-> "tuple"]

Name(n) == [name |-> n, v |-> <<>>, kind |-> "str"]

\* the r, g, b that set_all and set_pixel store, or the ValueError they raise
ResolveColor(c) ==
    IF c.kind = "str"
    THEN IF c.name \in DOMAIN COLORS
         THEN [err |-> "none", rgb |-> COLORS[c.name]]
         ELSE [err |-> "ValueError", rgb |-> <<>>]
    ELSE [err |-> "none", rgb |-> c.v]

----------------------------------------------------------------------------
(* Pure results of the operations *)

\* int(round(n / 90.0)) and the like: round half to even (d > 0)
PyRound(n, d) ==
    LET q == n \div d
        rem == n - q * d
    IN  IF 2 * rem < d THEN q
        ELSE IF 2 * rem > d THEN q + 1
        ELSE IF q % 2 = 0 THEN q ELSE q + 1

\* set_pixel on array b: the new array and the exception raised, if any
SetPixelResult(b, x, y, c) ==
    LET col == ResolveColor(c)
    IN  IF col.err # "none" THEN [buf |-> b, err |-> col.err]
        ELSE IF ~IndexOk(x, b.n0) \/ ~IndexOk(y, b.n1)
        THEN [buf |-> b, err |-> "IndexError"]
        ELSE [buf |-> [b EXCEPT !.at[PyIndex(x, b.n0)][PyIndex(y, b.n1)] = col.rgb],
              err |-> "none"]

\* safe_set_pixel on array b
SafeSetPixelResult(b, x, y, c) ==
    IF x >= 0 /\ y >= 0 /\ x < WIDTH /\ y < HEIGHT
    THEN SetPixelResult(b, x, y, c)
    ELSE [buf |-> b, err |-> "none"]

\* a slip: setup() without the is_setup guard
setup_result_unguarded(ok) ==
    IF ok
    THEN [is_setup |-> TRUE, opens |-> opens + 1, err |-> "none", log |-> <<Open>>]
    ELSE [is_setup |-> FALSE, opens |-> opens, err |-> "IOError", log |-> <<>>]

\* setup(): ok says whether _spi.open(0, 0) succeeds
setup_result(ok) ==
    IF is_setup
    THEN [is_setup |-> TRUE, opens |-> opens, err |-> "none", log |-> <<>>]
    ELSE IF ok
    THEN [is_setup |-> TRUE, opens |-> opens + 1, err |-> "none", log |-> <<Open>>]
    ELSE [is_setup |-> FALSE, opens |-> opens, err |-> "IOError", log |-> <<>>]

\* a slip: the header of single-panel mode plus the address
HeaderNoOffset(address) == SOF + address

\* the first byte of the frame of the display at an address
Header(address) == SOF + 1 + address

\* a slip: no delay after a frame of the chain
FrameNoDelay(frame) == <<Xfer(frame)>>

\* _spi.xfer2(frame) and the time.sleep(_DELAY) after it
FrameAndDelay(frame) == <<Xfer(frame), Sleep>>

\* the loop of show() over the addresses from `address` on, for array b
RECURSIVE ShowAddressed(_, _, _)
ShowAddressed(b, address, acc) ==
    IF address = NumDisplays
    THEN [err |-> "none", log |-> acc \o <<Sleep>>]
    ELSE IF ~displays[address].enabled
    THEN ShowAddressed(b, address + 1, acc)
    ELSE LET window == get_buffer_window(displays[address], rot90(b, rotation))
         IN  IF Size(window) # FrameLen
             THEN [err |-> "ValueError", log |-> acc]
             ELSE ShowAddressed(b, address + 1,
                      acc \o FrameAndDelay(<<Header(address)>> \o Payload(window)))

\* the else branch of show(), for array b
ShowPlain(b) ==
    LET m == rot90(b, rotation)
    IN  IF Size(m) # FrameLen
        THEN [err |-> "ValueError", log |-> <<>>]
        ELSE [err |-> "none", log |-> <<Xfer(<<SOF>> \o Payload(m)), Sleep>>]

\* show() of array b
ShowResult(b, ok) ==
    LET s == setup_result(ok)
    IN  IF s.err # "none" THEN s
        ELSE LET r == IF addressing THEN ShowAddressed(b, 0, <<>>) ELSE ShowPlain(b)
             IN  [is_setup |-> s.is_setup, opens |-> s.opens, err |-> r.err,
                  log |-> s.log \o r.log]

----------------------------------------------------------------------------
(* Getters *)

get_rotation == rotation * 90

get_shape == <<buffer_width, buffer_height>>

get_pixels == buf

get_pixel(x, y) == buf.at[PyIndex(x, buf.n0)][PyIndex(y, buf.n1)]

----------------------------------------------------------------------------
(* Operations *)

setup(ok) ==
    LET s == setup_result(ok)
    IN  /\ is_setup' = s.is_setup
        /\ opens' = s.opens
        /\ log' = s.log
        /\ err' = s.err
        /\ call' = Call("setup", <<>>)
        /\ UNCHANGED <<buf, buffer_width, buffer_height, displays, rotation,
                       brightness, addressing, uint8_cast>>

enable_addressing(enabled) ==
    /\ addressing' = enabled
    /\ call' = Call("enable_addressing", <<enabled>>)
    /\ err' = "none"
    /\ log' = <<>>
    /\ UNCHANGED <<buf, buffer_width, buffer_height, displays, rotation,
                   brightness, is_setup, opens, uint8_cast>>

setup_buffer(width, height) ==
    /\ buffer_width' = width
    /\ buffer_height' = height
    /\ IF width < 0 \/ height < 0
       THEN buf' = buf /\ err' = "ValueError"
       ELSE buf' = Zeros(width, height) /\ err' = "none"
    /\ call' = Call("setup_buffer", <<width, height>>)
    /\ log' = <<>>
    /\ UNCHANGED <<displays, rotation, brightness, addressing, is_setup, opens,
                   uint8_cast>>

enable_display(address, enabled) ==
    /\ IF IndexOk(address, NumDisplays)
       THEN /\ displays' = [displays EXCEPT
                               ![PyIndex(address, NumDisplays)].enabled = enabled]
            /\ err' = "none"
       ELSE /\ displays' = displays
            /\ err' = "IndexError"
    /\ call' = Call("enable_display", <<address, enabled>>)
    /\ log' = <<>>
    /\ UNCHANGED <<buf, buffer_width, buffer_height, rotation, brightness,
                   addressing, is_setup, opens, uint8_cast>>

setup_display(address, x, y, r) ==
    /\ IF IndexOk(address, NumDisplays)
       THEN /\ displays' = [displays EXCEPT
                               ![PyIndex(address, NumDisplays)] = Display(TRUE, x, y, r)]
            /\ err' = "none"
       ELSE /\ displays' = displays
            /\ err' = "IndexError"
    /\ call' = Call("setup_display", <<address, x, y, r>>)
    /\ log' = <<>>
    /\ UNCHANGED <<buf, buffer_width, buffer_height, rotation, brightness,
                   addressing, is_setup, opens, uint8_cast>>

set_brightness(b) ==
    /\ brightness' = b
    /\ call' = Call("set_brightness", <<b>>)
    /\ err' = "none"
    /\ log' = <<>>
    /\ UNCHANGED <<buf, buffer_width, buffer_height, displays, rotation,
                   addressing, is_setup, opens, uint8_cast>>

set_rotation(r) ==
    /\ rotation' = PyRound(r, 90)
    /\ call' = Call("set_rotation", <<r>>)
    /\ err' = "none"
    /\ log' = <<>>
    /\ UNCHANGED <<buf, buffer_width, buffer_height, displays, brightness,
                   addressing, is_setup, opens, uint8_cast>>

set_all(c) ==
    LET col == ResolveColor(c)
    IN  /\ IF col.err # "none"
           THEN buf' = buf
           ELSE buf' = Filled(buf, col.rgb)
        /\ err' = col.err
        /\ call' = Call("set_all", <<c>>)
        /\ log' = <<>>
        /\ UNCHANGED <<buffer_width, buffer_height, displays, rotation, brightness,
                       addressing, is_setup, opens, uint8_cast>>

set_pixel(x, y, c) ==
    LET res == SetPixelResult(buf, x, y, c)
    IN  /\ buf' = res.buf
        /\ err' = res.err
        /\ call' = Call("set_pixel", <<x, y, c>>)
        /\ log' = <<>>
        /\ UNCHANGED <<buffer_width, buffer_height, displays, rotation, brightness,
                       addressing, is_setup, opens, uint8_cast>>

safe_set_pixel(x, y, c) ==
    LET res == SafeSetPixelResult(buf, x, y, c)
    IN  /\ buf' = res.buf
        /\ err' = res.err
        /\ call' = Call("safe_set_pixel", <<x, y, c>>)
        /\ log' = <<>>
        /\ UNCHANGED <<buffer_width, buffer_height, displays, rotation, brightness,
                       addressing, is_setup, opens, uint8_cast>>

\* set_pixels(b) binds a local name: the module's _buf is not assigned
set_pixels(b) ==
    /\ call' = Call("set_pixels", <<b>>)
    /\ err' = "none"
    /\ log' = <<>>
    /\ UNCHANGED <<buf, buffer_width, buffer_height, displays, rotation, brightness,
                   addressing, is_setup, opens, uint8_cast>>

clear ==
    /\ buf' = Filled(buf, <<0, 0, 0>>)
    /\ call' = Call("clear", <<>>)
    /\ err' = "none"
    /\ log' = <<>>
    /\ UNCHANGED <<buffer_width, buffer_height, displays, rotation, brightness,
                   addressing, is_setup, opens, uint8_cast>>

show(ok) ==
    LET s == ShowResult(buf, ok)
    IN  /\ is_setup' = s.is_setup
        /\ opens' = s.opens
        /\ log' = s.log
        /\ err' = s.err
        /\ call' = Call("show", <<>>)
        /\ UNCHANGED <<buf, buffer_width, buffer_height, displays, rotation,
                       brightness, addressing, uint8_cast>>

off(ok) ==
    LET cleared == Filled(buf, <<0, 0, 0>>)
        s == ShowResult(cleared, ok)
    IN  /\ buf' = cleared
        /\ is_setup' = s.is_setup
        /\ opens' = s.opens
        /\ log' = s.log
        /\ err' = s.err
        /\ call' = Call("off", <<>>)
        /\ UNCHANGED <<buffer_width, buffer_height, displays, rotation, brightness,
                       addressing, uint8_cast>>

----------------------------------------------------------------------------
(* The chain of displays driven through show() and off() *)

ChainAddresses == 0..(NumDisplays - 1)

ChainOffsets == {0, PanelEdge}

NextChain ==
    \/ \E ok \in BOOLEAN : setup(ok)
    \/ \E e \in BOOLEAN : enable_addressing(e)
    \/ \E a \in ChainAddresses, f \in BOOLEAN : enable_display(a, f)
    \/ \E x \in ChainOffsets : setup_display(2, x, 0, 0)
    \/ \E ok \in BOOLEAN : show(ok)
    \/ \E ok \in BOOLEAN : off(ok)

SpecChain == Init /\ [][NextChain]_vars

----------------------------------------------------------------------------
(* Properties of the frames on the bus *)

\* the frames handed to _spi.xfer2 by the most recent call, in order
Frames == SelectSeq(log, LAMBDA e : e.ev = "xfer")

\* the first byte of each of them
Headers == [i \in 1..Len(Frames) |-> Frames[i].data[1]]

EnabledAddresses == {a \in 0..(NumDisplays - 1) : displays[a].enabled}

\* the addresses 0..7 in ascending order
AddressOrder == [i \in 1..NumDisplays |-> i - 1]

\* whether the window of the display at address a holds fewer values than a frame
ShortWindow(a) ==
    LET src == rot90(buf, rotation)
        c0 == Max(SliceBound(displays[a].x + PANEL_W, src.n0)
                    - SliceBound(displays[a].x, src.n0), 0)
        c1 == Max(SliceBound(displays[a].y + PANEL_H, src.n1)
                    - SliceBound(displays[a].y, src.n1), 0)
    IN  c0 * c1 # PANEL_W * PANEL_H

\* the first enabled address with a short window, NumDisplays if there is none
FirstShort ==
    LET bad == {a \in EnabledAddresses : ShortWindow(a)}
    IN  IF bad = {} THEN NumDisplays
        ELSE CHOOSE a \in bad : \A c \in bad : a <= c

\* the state is the return of a show() in addressed mode
AfterAddressedShow == call.op = "show" /\ addressing

\* C1 as stated: in addressed mode one show() (here with the bus open) sends
\* exactly one frame per enabled slot, none for a disabled slot, in strictly
\* ascending address order, the frame of address a starting with 0x72 + 1 + a.
C1_OneFramePerEnabledSlot ==
    (AfterAddressedShow /\ is_setup) =>
        Headers = [i \in 1..Cardinality(EnabledAddresses) |->
                      SOF + 1 + SelectSeq(AddressOrder,
                                          LAMBDA a : a \in EnabledAddresses)[i]]

\* C1 amended: a show() in addressed mode that returns without error has sent
\* exactly one frame per enabled slot, ascending, headed 0x72 + 1 + a.  It
\* fails, with nothing sent, when the bus cannot be opened; it fails at the
\* first enabled slot whose window is not a full panel of the rotated buffer,
\* with the frames of the enabled slots below that one sent and no others.
C1_FramesUntilFirstShortWindow ==
    AfterAddressedShow =>
        LET upto == IF is_setup THEN FirstShort ELSE 0
            sent == SelectSeq(AddressOrder,
                              LAMBDA a : a \in EnabledAddresses /\ a < upto)
        IN  /\ Headers = [i \in 1..Len(sent) |-> SOF + 1 + sent[i]]
            /\ (err = "none") <=> (is_setup /\ FirstShort = NumDisplays)
            /\ (err = "none") => Len(Frames) = Cardinality(EnabledAddresses)

\* C1 witness: only addresses 2 and 5 enabled, and show() sent their two frames
C1_Witness ==
    /\ AfterAddressedShow
    /\ err = "none"
    /\ EnabledAddresses = {2, 5}
    /\ Headers = <<SOF + 1 + 2, SOF + 1 + 5>>

\* C9: every frame handed to the bus is followed at once by a delay, so no two
\* transfers are adjacent, in one call or across calls, and the last event of
\* a call that sent a frame is a delay.
C9_DelayAfterEveryFrame ==
    \A i \in 1..Len(log) :
        log[i].ev = "xfer" => (i < Len(log) /\ log[i + 1].ev = "sleep")

\* C9 witness: a show() in addressed mode that sent three frames or more
C9_Witness ==
    /\ AfterAddressedShow
    /\ Len(Frames) >= 3
    /\ log[Len(log)].ev = "sleep"

\* C10: the bus is opened at most once, and a frame is transferred only on an
\* open bus: a call that sends a frame either opened the bus before its first
\* frame or found it open.
C10_OpenedOnceBeforeAnyFrame ==
    /\ opens <= 1
    /\ is_setup <=> (opens = 1)
    /\ \A i \in 1..Len(log) :
          /\ log[i].ev = "xfer" => opens = 1
          /\ log[i].ev = "open" => i = 1

\* C10 witness: a later show() or off() sends a frame on the bus opened before
C10_Witness ==
    /\ (call.op = "show" \/ call.op = "off")
    /\ opens = 1
    /\ Len(Frames) >= 1
    /\ log[1].ev # "open"

----------------------------------------------------------------------------
(* Configuration of the chain and of the global rotation *)

\* how far beyond the valid addresses and angles the calls go
MaxOver == 1

\* addresses around both ends of the negative and the non-negative range
ConfigAddresses ==
    LET n == NumDisplays
    IN  (-(n + MaxOver)..(-n)) \cup {-1, 0} \cup ((n - 1)..(n - 1 + MaxOver))

\* angles in steps of 45 degrees, from below -360 to above 360
Angles == {45 * k : k \in (-(8 + MaxOver))..(8 + MaxOver)}

Next ==
    \/ \E a \in ConfigAddresses, f \in BOOLEAN : enable_display(a, f)
    \/ \E a \in ConfigAddresses, x \in {0, PanelEdge} :
          setup_display(a, x, 0, 1)
    \/ \E r \in Angles : set_rotation(r)
    \/ \E e \in BOOLEAN : enable_addressing(e)

Spec == Init /\ [][Next]_vars

\* the call that led to the state is a display configuration call with an
\* address outside 0..7
BadAddressCall ==
    /\ (call.op = "setup_display" \/ call.op = "enable_display")
    /\ call.args[1] \notin 0..(NumDisplays - 1)

\* C4 as stated: setup_display and enable_display with an address outside
\* 0..7, -1 included, fail with an error and leave all eight slots unchanged.
C4_BadAddressFails ==
    [][BadAddressCall' => (err' # "none" /\ displays' = displays)]_vars

\* C5 as stated: after any sequence of set_rotation calls the stored rotation
\* step is one of 0, 1, 2, 3 and get_rotation() returns 0, 90, 180 or 270.
C5_RotationNormalised ==
    /\ rotation \in 0..3
    /\ get_rotation \in {0, 90, 180, 270}

----------------------------------------------------------------------------
(* The pixel buffer: resizing, the pixel setters, the whole-buffer setter *)

\* buffer dimensions: negative, smaller than a panel, two panels (the buffer
\* starts as one panel)
BufferDims == {-1, PanelEdge - 1, 2 * PanelEdge}

\* coordinates: negative, the first and last of a panel, beyond a panel
Coords == {-1, 0, PanelEdge - 1, PanelEdge}

\* whole grids handed to set_pixels
Grids == {Filled(Zeros(WIDTH, HEIGHT), <<255, 0, 0>>)}

\* the colour argument of safe_set_pixel: three numbers
Red == Rgb(255, 0, 0)

\* colour arguments of set_pixel: a tuple, a known name, an unknown name
PixelColours == {Tuple(255, 0, 0), Name("red"), Name("nope")}

\* colour arguments of set_all
FillColours == {Name("red"), Name("nope")}

NextBuffer ==
    \/ \E w \in BufferDims, h \in BufferDims : setup_buffer(w, h)
    \/ \E x \in Coords, y \in {0, PanelEdge - 1} :
          safe_set_pixel(x, y, Red)
    \/ \E x \in {-1, PanelEdge}, c \in PixelColours :
          set_pixel(x, 0, c)
    \/ \E b \in Grids : set_pixels(b)
    \/ \E c \in FillColours : set_all(c)
    \/ clear

SpecBuffer == Init /\ [][NextBuffer]_vars

\* the call that led to the state is safe_set_pixel with coordinates outside
\* [0, width) x [0, height) of the buffer
SafeSetOutOfRange ==
    /\ call.op = "safe_set_pixel"
    /\ ~(/\ 0 <= call.args[1] /\ call.args[1] < buf.n0
         /\ 0 <= call.args[2] /\ call.args[2] < buf.n1)

\* C3 as stated: for any buffer dimensions set by setup_buffer, safe_set_pixel
\* with coordinates outside the buffer raises no error and changes no cell.
C3_SafeSetIgnoresOutOfRange ==
    [][SafeSetOutOfRange' => (err' = "none" /\ buf' = buf)]_vars

\* C7 as stated: setup_buffer is all-or-nothing, so after any sequence of
\* calls get_shape() is the real shape of the buffer, and a failed call has
\* changed neither.
C7_ShapeMatchesBuffer ==
    /\ get_shape = <<buf.n0, buf.n1>>
    /\ (call.op = "setup_buffer" /\ err = "none") =>
           buf = Zeros(call.args[1], call.args[2])

\* C8 as stated: after set_pixels(b), get_pixels() is b and get_pixel(x, y)
\* is b's value at (x, y) for every coordinate in range.
C8_SetPixelsReplacesGrid ==
    call.op = "set_pixels" =>
        /\ get_pixels = call.args[1]
        /\ \A x \in 0..(call.args[1].n0 - 1), y \in 0..(call.args[1].n1 - 1) :
              /\ IndexOk(x, buf.n0)
              /\ IndexOk(y, buf.n1)
              /\ get_pixel(x, y) = call.args[1].at[x][y]

----------------------------------------------------------------------------
(* The window of a display: global rotation, slice, local rotation *)

\* the colour of the pixels set in the buffer
LitPixel == Rgb(255, 128, 64)

NextWindow ==
    \/ enable_addressing(TRUE)
    \/ \E h \in {PanelEdge, 2 * PanelEdge} : setup_buffer(2 * PanelEdge, h)
    \/ \E x \in {0, PanelEdge + 1} : set_pixel(x, 1, LitPixel)
    \/ \E r \in {-90, 0, 90, 180} : set_rotation(r)
    \/ \E x \in {0, PanelEdge}, y \in {0, PanelEdge}, p \in 0..3 :
          setup_display(5, x, y, p)
    \/ enable_display(2, TRUE)
    \/ \E ok \in BOOLEAN : show(ok)

SpecWindow == Init /\ [][NextWindow]_vars

\* one quarter-turn of a grid, anticlockwise: cell (i, j) of the result is
\* cell (j, n1 - 1 - i) of the grid
QuarterTurn(m) ==
    [n0 |-> m.n1, n1 |-> m.n0,
     at |-> [i \in 0..(m.n1 - 1) |->
               [j \in 0..(m.n0 - 1) |-> m.at[j][m.n1 - 1 - i]]]]

\* n quarter-turns, one after the other
RECURSIVE Turns(_, _)
Turns(m, n) == IF n = 0 THEN m ELSE Turns(QuarterTurn(m), n - 1)

\* the panel-sized part of a grid whose first cell is (x, y)
Cut(m, x, y) ==
    [n0 |-> PANEL_W, n1 |-> PANEL_H,
     at |-> [i \in 0..(PANEL_W - 1) |->
               [j \in 0..(PANEL_H - 1) |-> m.at[x + i][y + j]]]]

\* the grid the frame of display d must carry: rotate the whole buffer by the
\* global step, cut the panel at (x, y), rotate the cut by the panel's step + 1
ExpectedWindow(d) ==
    Turns(Cut(Turns(buf, rotation % 4), d.x, d.y), (d.rotation + 1) % 4)

\* the bytes of a grid: rows first, the channels of a cell together, each
\* value scaled by the brightness
BytesOf(m) ==
    [k \in 1..(m.n0 * m.n1 * 3) |->
        ToByte(m.at[(k - 1) \div (3 * m.n1)][((k - 1) \div 3) % m.n1][((k - 1) % 3) + 1],
               brightness, uint8_cast)]

\* C2: the frame of every enabled panel carries the buffer rotated by the
\* global step, then cut at the panel's offset, then rotated by the panel's
\* own step plus the fixed one.
C2_WindowComposition ==
    AfterAddressedShow =>
        \A i \in 1..Len(Frames) :
            LET a == Frames[i].data[1] - SOF - 1
            IN  Tail(Frames[i].data) = BytesOf(ExpectedWindow(displays[a]))

\* C2 witness: a frame went out for a panel at a non-zero offset with a
\* non-zero rotation step, under a non-zero global rotation, and it shows a
\* lit pixel
C2_Witness ==
    /\ AfterAddressedShow
    /\ rotation % 4 # 0
    /\ \E i \in 1..Len(Frames) :
          LET d == displays[Frames[i].data[1] - SOF - 1]
          IN  /\ d.x # 0
              /\ d.rotation % 4 # 0
              /\ \E k \in 2..Len(Frames[i].data) : Frames[i].data[k] # 0

----------------------------------------------------------------------------
(* Brightness scaling and the bytes of a frame *)

Brightnesses == {FloatB(0, 1), FloatB(1, 1), FloatB(3, 2), IntB(1)}

\* pixel values: channels within a byte, and one channel above 255
ByteColours == {Rgb(255, 128, 7), Rgb(300, 0, 64)}

NextBytes ==
    \/ \E x \in {0, PanelEdge - 1}, c \in ByteColours :
          set_pixel(x, 0, c)
    \/ \E b \in Brightnesses : set_brightness(b)
    \/ \E e \in BOOLEAN : enable_addressing(e)
    \/ enable_display(0, TRUE)
    \/ clear
    \/ \E ok \in BOOLEAN : show(ok)

SpecBytes == Init /\ [][NextBytes]_vars

\* channel value v times the brightness, truncated towards zero and then
\* saturated into 0..255
Saturated(v, b) ==
    LET t == IF b.kind = "int" THEN v * b.num
             ELSE IF v * b.num >= 0 THEN (v * b.num) \div b.den
             ELSE -((-(v * b.num)) \div b.den)
    IN  IF t > 255 THEN 255 ELSE IF t < 0 THEN 0 ELSE t

\* C6 as stated: every payload byte sent by show() is the channel value times
\* the brightness, truncated towards zero and saturated into [0, 255], never
\* the product reduced modulo 256.  Stated for single-panel mode, where the
\* payload is the rotated buffer in row-major order.
C6_PayloadSaturates ==
    (call.op = "show" /\ ~addressing /\ Len(Frames) = 1) =>
        LET flat == Reshape(rot90(buf, rotation), FrameLen)
        IN  \A k \in 1..FrameLen :
                Frames[1].data[k + 1] = Saturated(flat[k], brightness)

====
